---- MODULE Spec2Model ----
(***************************************************************************)
(* The Kitty keyboard-protocol codec of kitty/key_encoding.py:             *)
(* decode_key_event, encode_key_event, parse_shortcut, KeyEvent.matches    *)
(* and decode_key_event_as_window_system_key.                              *)
(*                                                                         *)
(* A Python str is modelled as the sequence of its code points, so         *)
(* 'UP' is <<85, 80>> and '' is <<>>; chr and ord are then the builtin's   *)
(* range and length checks around the one-element sequence.  A call that   *)
(* may raise returns [raised |-> <exception name or "None">, value |-> v]. *)
(***************************************************************************)
EXTENDS Integers, Sequences, FiniteSets, TLC

\* ---------------------------------------------------------------------
\* number name mappings (key_encoding.py lines 16-148)
\* ---------------------------------------------------------------------

functional_key_number_to_name_map ==
    57344 :> <<69, 83, 67, 65, 80, 69>>   \* 'ESCAPE'
 @@ 57345 :> <<69, 78, 84, 69, 82>>   \* 'ENTER'
 @@ 57346 :> <<84, 65, 66>>   \* 'TAB'
 @@ 57347 :> <<66, 65, 67, 75, 83, 80, 65, 67, 69>>   \* 'BACKSPACE'
 @@ 57348 :> <<73, 78, 83, 69, 82, 84>>   \* 'INSERT'
 @@ 57349 :> <<68, 69, 76, 69, 84, 69>>   \* 'DELETE'
 @@ 57350 :> <<76, 69, 70, 84>>   \* 'LEFT'
 @@ 57351 :> <<82, 73, 71, 72, 84>>   \* 'RIGHT'
 @@ 57352 :> <<85, 80>>   \* 'UP'
 @@ 57353 :> <<68, 79, 87, 78>>   \* 'DOWN'
 @@ 57354 :> <<80, 65, 71, 69, 95, 85, 80>>   \* 'PAGE_UP'
 @@ 57355 :> <<80, 65, 71, 69, 95, 68, 79, 87, 78>>   \* 'PAGE_DOWN'
 @@ 57356 :> <<72, 79, 77, 69>>   \* 'HOME'
 @@ 57357 :> <<69, 78, 68>>   \* 'END'
 @@ 57358 :> <<67, 65, 80, 83, 95, 76, 79, 67, 75>>   \* 'CAPS_LOCK'
 @@ 57359 :> <<83, 67, 82, 79, 76, 76, 95, 76, 79, 67, 75>>   \* 'SCROLL_LOCK'
 @@ 57360 :> <<78, 85, 77, 95, 76, 79, 67, 75>>   \* 'NUM_LOCK'
 @@ 57361 :> <<80, 82, 73, 78, 84, 95, 83, 67, 82, 69, 69, 78>>   \* 'PRINT_SCREEN'
 @@ 57362 :> <<80, 65, 85, 83, 69>>   \* 'PAUSE'
 @@ 57363 :> <<77, 69, 78, 85>>   \* 'MENU'
 @@ 57364 :> <<70, 49>>   \* 'F1'
 @@ 57365 :> <<70, 50>>   \* 'F2'
 @@ 57366 :> <<70, 51>>   \* 'F3'
 @@ 57367 :> <<70, 52>>   \* 'F4'
 @@ 57368 :> <<70, 53>>   \* 'F5'
 @@ 57369 :> <<70, 54>>   \* 'F6'
 @@ 57370 :> <<70, 55>>   \* 'F7'
 @@ 57371 :> <<70, 56>>   \* 'F8'
 @@ 57372 :> <<70, 57>>   \* 'F9'
 @@ 57373 :> <<70, 49, 48>>   \* 'F10'
 @@ 57374 :> <<70, 49, 49>>   \* 'F11'
 @@ 57375 :> <<70, 49, 50>>   \* 'F12'
 @@ 57376 :> <<70, 49, 51>>   \* 'F13'
 @@ 57377 :> <<70, 49, 52>>   \* 'F14'
 @@ 57378 :> <<70, 49, 53>>   \* 'F15'
 @@ 57379 :> <<70, 49, 54>>   \* 'F16'
 @@ 57380 :> <<70, 49, 55>>   \* 'F17'
 @@ 57381 :> <<70, 49, 56>>   \* 'F18'
 @@ 57382 :> <<70, 49, 57>>   \* 'F19'
 @@ 57383 :> <<70, 50, 48>>   \* 'F20'
 @@ 57384 :> <<70, 50, 49>>   \* 'F21'
 @@ 57385 :> <<70, 50, 50>>   \* 'F22'
 @@ 57386 :> <<70, 50, 51>>   \* 'F23'
 @@ 57387 :> <<70, 50, 52>>   \* 'F24'
 @@ 57388 :> <<70, 50, 53>>   \* 'F25'
 @@ 57389 :> <<70, 50, 54>>   \* 'F26'
 @@ 57390 :> <<70, 50, 55>>   \* 'F27'
 @@ 57391 :> <<70, 50, 56>>   \* 'F28'
 @@ 57392 :> <<70, 50, 57>>   \* 'F29'
 @@ 57393 :> <<70, 51, 48>>   \* 'F30'
 @@ 57394 :> <<70, 51, 49>>   \* 'F31'
 @@ 57395 :> <<70, 51, 50>>   \* 'F32'
 @@ 57396 :> <<70, 51, 51>>   \* 'F33'
 @@ 57397 :> <<70, 51, 52>>   \* 'F34'
 @@ 57398 :> <<70, 51, 53>>   \* 'F35'
 @@ 57399 :> <<75, 80, 95, 48>>   \* 'KP_0'
 @@ 57400 :> <<75, 80, 95, 49>>   \* 'KP_1'
 @@ 57401 :> <<75, 80, 95, 50>>   \* 'KP_2'
 @@ 57402 :> <<75, 80, 95, 51>>   \* 'KP_3'
 @@ 57403 :> <<75, 80, 95, 52>>   \* 'KP_4'
 @@ 57404 :> <<75, 80, 95, 53>>   \* 'KP_5'
 @@ 57405 :> <<75, 80, 95, 54>>   \* 'KP_6'
 @@ 57406 :> <<75, 80, 95, 55>>   \* 'KP_7'
 @@ 57407 :> <<75, 80, 95, 56>>   \* 'KP_8'
 @@ 57408 :> <<75, 80, 95, 57>>   \* 'KP_9'
 @@ 57409 :> <<75, 80, 95, 68, 69, 67, 73, 77, 65, 76>>   \* 'KP_DECIMAL'
 @@ 57410 :> <<75, 80, 95, 68, 73, 86, 73, 68, 69>>   \* 'KP_DIVIDE'
 @@ 57411 :> <<75, 80, 95, 77, 85, 76, 84, 73, 80, 76, 89>>   \* 'KP_MULTIPLY'
 @@ 57412 :> <<75, 80, 95, 83, 85, 66, 84, 82, 65, 67, 84>>   \* 'KP_SUBTRACT'
 @@ 57413 :> <<75, 80, 95, 65, 68, 68>>   \* 'KP_ADD'
 @@ 57414 :> <<75, 80, 95, 69, 78, 84, 69, 82>>   \* 'KP_ENTER'
 @@ 57415 :> <<75, 80, 95, 69, 81, 85, 65, 76>>   \* 'KP_EQUAL'
 @@ 57416 :> <<75, 80, 95, 83, 69, 80, 65, 82, 65, 84, 79, 82>>   \* 'KP_SEPARATOR'
 @@ 57417 :> <<75, 80, 95, 76, 69, 70, 84>>   \* 'KP_LEFT'
 @@ 57418 :> <<75, 80, 95, 82, 73, 71, 72, 84>>   \* 'KP_RIGHT'
 @@ 57419 :> <<75, 80, 95, 85, 80>>   \* 'KP_UP'
 @@ 57420 :> <<75, 80, 95, 68, 79, 87, 78>>   \* 'KP_DOWN'
 @@ 57421 :> <<75, 80, 95, 80, 65, 71, 69, 95, 85, 80>>   \* 'KP_PAGE_UP'
 @@ 57422 :> <<75, 80, 95, 80, 65, 71, 69, 95, 68, 79, 87, 78>>   \* 'KP_PAGE_DOWN'
 @@ 57423 :> <<75, 80, 95, 72, 79, 77, 69>>   \* 'KP_HOME'
 @@ 57424 :> <<75, 80, 95, 69, 78, 68>>   \* 'KP_END'
 @@ 57425 :> <<75, 80, 95, 73, 78, 83, 69, 82, 84>>   \* 'KP_INSERT'
 @@ 57426 :> <<75, 80, 95, 68, 69, 76, 69, 84, 69>>   \* 'KP_DELETE'
 @@ 57427 :> <<77, 69, 68, 73, 65, 95, 80, 76, 65, 89>>   \* 'MEDIA_PLAY'
 @@ 57428 :> <<77, 69, 68, 73, 65, 95, 80, 65, 85, 83, 69>>   \* 'MEDIA_PAUSE'
 @@ 57429 :> <<77, 69, 68, 73, 65, 95, 80, 76, 65, 89, 95, 80, 65, 85, 83, 69>>   \* 'MEDIA_PLAY_PAUSE'
 @@ 57430 :> <<77, 69, 68, 73, 65, 95, 82, 69, 86, 69, 82, 83, 69>>   \* 'MEDIA_REVERSE'
 @@ 57431 :> <<77, 69, 68, 73, 65, 95, 83, 84, 79, 80>>   \* 'MEDIA_STOP'
 @@ 57432 :> <<77, 69, 68, 73, 65, 95, 70, 65, 83, 84, 95, 70, 79, 82, 87, 65, 82, 68>>   \* 'MEDIA_FAST_FORWARD'
 @@ 57433 :> <<77, 69, 68, 73, 65, 95, 82, 69, 87, 73, 78, 68>>   \* 'MEDIA_REWIND'
 @@ 57434 :> <<77, 69, 68, 73, 65, 95, 84, 82, 65, 67, 75, 95, 78, 69, 88, 84>>   \* 'MEDIA_TRACK_NEXT'
 @@ 57435 :> <<77, 69, 68, 73, 65, 95, 84, 82, 65, 67, 75, 95, 80, 82, 69, 86, 73, 79, 85, 83>>   \* 'MEDIA_TRACK_PREVIOUS'
 @@ 57436 :> <<77, 69, 68, 73, 65, 95, 82, 69, 67, 79, 82, 68>>   \* 'MEDIA_RECORD'
 @@ 57437 :> <<76, 79, 87, 69, 82, 95, 86, 79, 76, 85, 77, 69>>   \* 'LOWER_VOLUME'
 @@ 57438 :> <<82, 65, 73, 83, 69, 95, 86, 79, 76, 85, 77, 69>>   \* 'RAISE_VOLUME'
 @@ 57439 :> <<77, 85, 84, 69, 95, 86, 79, 76, 85, 77, 69>>   \* 'MUTE_VOLUME'
 @@ 57440 :> <<76, 69, 70, 84, 95, 83, 72, 73, 70, 84>>   \* 'LEFT_SHIFT'
 @@ 57441 :> <<76, 69, 70, 84, 95, 67, 79, 78, 84, 82, 79, 76>>   \* 'LEFT_CONTROL'
 @@ 57442 :> <<76, 69, 70, 84, 95, 65, 76, 84>>   \* 'LEFT_ALT'
 @@ 57443 :> <<76, 69, 70, 84, 95, 83, 85, 80, 69, 82>>   \* 'LEFT_SUPER'
 @@ 57444 :> <<76, 69, 70, 84, 95, 72, 89, 80, 69, 82>>   \* 'LEFT_HYPER'
 @@ 57445 :> <<82, 73, 71, 72, 84, 95, 83, 72, 73, 70, 84>>   \* 'RIGHT_SHIFT'
 @@ 57446 :> <<82, 73, 71, 72, 84, 95, 67, 79, 78, 84, 82, 79, 76>>   \* 'RIGHT_CONTROL'
 @@ 57447 :> <<82, 73, 71, 72, 84, 95, 65, 76, 84>>   \* 'RIGHT_ALT'
 @@ 57448 :> <<82, 73, 71, 72, 84, 95, 83, 85, 80, 69, 82>>   \* 'RIGHT_SUPER'
 @@ 57449 :> <<82, 73, 71, 72, 84, 95, 72, 89, 80, 69, 82>>   \* 'RIGHT_HYPER'
 @@ 57450 :> <<73, 83, 79, 95, 76, 69, 86, 69, 76, 51, 95, 83, 72, 73, 70, 84>>   \* 'ISO_LEVEL3_SHIFT'
 @@ 57451 :> <<73, 83, 79, 95, 76, 69, 86, 69, 76, 53, 95, 83, 72, 73, 70, 84>>   \* 'ISO_LEVEL5_SHIFT'

csi_number_to_functional_number_map ==
    2 :> 57348 @@ 3 :> 57349 @@ 5 :> 57354 @@ 6 :> 57355
 @@ 7 :> 57356 @@ 8 :> 57357 @@ 9 :> 57346 @@ 11 :> 57364
 @@ 12 :> 57365 @@ 13 :> 57345 @@ 14 :> 57367 @@ 15 :> 57368
 @@ 17 :> 57369 @@ 18 :> 57370 @@ 19 :> 57371 @@ 20 :> 57372
 @@ 21 :> 57373 @@ 23 :> 57374 @@ 24 :> 57375 @@ 27 :> 57344
 @@ 127 :> 57347

letter_trailer_to_csi_number_map ==
    <<65>> :> 57352   \* 'A'
 @@ <<66>> :> 57353   \* 'B'
 @@ <<67>> :> 57351   \* 'C'
 @@ <<68>> :> 57350   \* 'D'
 @@ <<70>> :> 8   \* 'F'
 @@ <<72>> :> 7   \* 'H'
 @@ <<80>> :> 11   \* 'P'
 @@ <<81>> :> 12   \* 'Q'
 @@ <<82>> :> 13   \* 'R'
 @@ <<83>> :> 14   \* 'S'

tilde_trailers ==
    {57348, 57349, 57354, 57355, 57368, 57369, 57370, 57371, 57372, 57373, 57374, 57375}

\* dict.get(k, default)
Get(map, k, default) == IF k \in DOMAIN map THEN map[k] ELSE default

\* {v: k for k, v in map.items()}
Invert(map) ==
    [v \in {map[k] : k \in DOMAIN map} |-> CHOOSE k \in DOMAIN map : map[k] = v]

get_name_to_functional_number_map == Invert(functional_key_number_to_name_map)

get_functional_to_csi_number_map == Invert(csi_number_to_functional_number_map)

get_csi_number_to_letter_trailer_map == Invert(letter_trailer_to_csi_number_map)

PRESS == 1
REPEAT == 2
RELEASE == 4

SHIFT == 1
ALT == 2
CTRL == 4
SUPER == 8

\* ---------------------------------------------------------------------
\* Python builtins the codec uses
\* ---------------------------------------------------------------------

Ok(v) == [raised |-> "None", value |-> v]

Raise(exc) == [raised |-> exc, value |-> <<>>]

\* x & bit, for a single-bit mask and any (also negative) int x
BitAnd(x, bit) == IF (x \div bit) % 2 = 1 THEN bit ELSE 0

\* a | b for non-negative ints
RECURSIVE BitOr(_, _)
BitOr(a, b) ==
    IF a = 0 THEN b
    ELSE IF b = 0 THEN a
    ELSE (IF a % 2 = 1 \/ b % 2 = 1 THEN 1 ELSE 0) + 2 * BitOr(a \div 2, b \div 2)

\* chr(n): ValueError outside range(0x110000)
chr(n) == IF n >= 0 /\ n < 1114112 THEN Ok(<<n>>) ELSE Raise("ValueError")

\* ord(s): TypeError unless s is one character
ord(s) == IF Len(s) = 1 THEN Ok(s[1]) ELSE Raise("TypeError")

\* str(n) / f'{n}': the decimal digits of n, '-' first when negative
RECURSIVE str(_)
str(n) ==
    IF n < 0 THEN <<45>> \o str(-n)
    ELSE IF n < 10 THEN <<48 + n>>
    ELSE str(n \div 10) \o <<48 + (n % 10)>>

IsSpace(c) == c \in {9, 10, 11, 12, 13, 32}

RECURSIVE strip(_)
strip(s) ==
    IF s = <<>> THEN s
    ELSE IF IsSpace(s[1]) THEN strip(Tail(s))
    ELSE IF IsSpace(s[Len(s)]) THEN strip(SubSeq(s, 1, Len(s) - 1))
    ELSE s

\* the digits of an int literal: decimal digits, single '_' between digits
IsDigits(d) ==
    /\ Len(d) > 0
    /\ \A i \in 1..Len(d) :
         \/ d[i] \in 48..57
         \/ /\ d[i] = 95
            /\ 1 < i /\ i < Len(d)
            /\ d[i - 1] \in 48..57 /\ d[i + 1] \in 48..57

RECURSIVE DigitsValue(_, _)
DigitsValue(d, acc) ==
    IF d = <<>> THEN acc
    ELSE IF d[1] = 95 THEN DigitsValue(Tail(d), acc)
    ELSE DigitsValue(Tail(d), 10 * acc + (d[1] - 48))

\* int(y), base 10: optional whitespace around, optional sign, digits;
\* anything else is a ValueError
int(y) ==
    LET s == strip(y)
        signed == s # <<>> /\ s[1] \in {43, 45}
        d == IF signed THEN Tail(s) ELSE s
    IN  IF ~IsDigits(d) THEN Raise("ValueError")
        ELSE IF signed /\ s[1] = 45 THEN Ok(-DigitsValue(d, 0))
        ELSE Ok(DigitsValue(d, 0))

\* s.split(sep) for a one-character separator
RECURSIVE split(_, _)
split(s, sep) ==
    IF \A i \in 1..Len(s) : s[i] # sep THEN <<s>>
    ELSE LET i == CHOOSE j \in 1..Len(s) :
                     s[j] = sep /\ \A l \in 1..(j - 1) : s[l] # sep
         IN  <<SubSeq(s, 1, i - 1)>> \o split(SubSeq(s, i + 1, Len(s)), sep)

\* sep.join(parts)
RECURSIVE join(_, _)
join(sep, parts) ==
    IF parts = <<>> THEN <<>>
    ELSE IF Len(parts) = 1 THEN parts[1]
    ELSE parts[1] \o sep \o join(sep, Tail(parts))

\* needle in haystack, for strings
IsSubstring(needle, haystack) ==
    \E i \in 0..(Len(haystack) - Len(needle)) :
        SubSeq(haystack, i + 1, i + Len(needle)) = needle

\* ---------------------------------------------------------------------
\* KeyEvent and decode_key_event
\* ---------------------------------------------------------------------

\* class KeyEvent(NamedTuple)
KeyEvent(type, mods, key, text, shifted_key, alternate_key, shift, alt, ctrl, super) ==
    [type |-> type, mods |-> mods, key |-> key, text |-> text,
     shifted_key |-> shifted_key, alternate_key |-> alternate_key,
     shift |-> shift, alt |-> alt, ctrl |-> ctrl, super |-> super]

\* tuple(int(y) if y else missing for y in x.split(':'))
RECURSIVE sub_section_values(_, _)
sub_section_values(ys, missing) ==
    IF ys = <<>> THEN Ok(<<>>)
    ELSE LET head == IF ys[1] # <<>> THEN int(ys[1]) ELSE Ok(missing)
             rest == sub_section_values(Tail(ys), missing)
         IN  IF head.raised # "None" THEN head
             ELSE IF rest.raised # "None" THEN rest
             ELSE Ok(<<head.value>> \o rest.value)

get_sub_sections(x, missing) == sub_section_values(split(x, 58), missing)

key_name_without_13(num, csi_type) ==
    IF num = 0 THEN Ok(<<>>)
    ELSE LET fnum == Get(csi_number_to_functional_number_map, num, num)
         IN  IF fnum \in DOMAIN functional_key_number_to_name_map
             THEN Ok(functional_key_number_to_name_map[fnum])
             ELSE chr(fnum)

\* decode_key_event.key_name, a closure over csi_type
key_name(num, csi_type) ==
    IF num = 0 THEN Ok(<<>>)
    ELSE IF num # 13 THEN
        LET fnum == Get(csi_number_to_functional_number_map, num, num)
        IN  IF fnum \in DOMAIN functional_key_number_to_name_map
            THEN Ok(functional_key_number_to_name_map[fnum])
            ELSE chr(fnum)
    ELSE IF csi_type = <<117>> THEN Ok(<<69, 78, 84, 69, 82>>)   \* 'ENTER'
    ELSE Ok(<<70, 51>>)                                              \* 'F3'

\* ''.join(map(chr, third_section))
RECURSIVE text_of(_)
text_of(third_section) ==
    IF third_section = <<>> THEN Ok(<<>>)
    ELSE LET c == chr(third_section[1])
             rest == text_of(Tail(third_section))
         IN  IF c.raised # "None" THEN c
             ELSE IF rest.raised # "None" THEN rest
             ELSE Ok(c.value \o rest.value)

\* {1: EventType.PRESS, 2: EventType.REPEAT, 3: EventType.RELEASE}
action_to_type == 1 :> PRESS @@ 2 :> REPEAT @@ 3 :> RELEASE

\* the mods of the event decode_key_event builds
decoded_mods(second_section) ==
    IF second_section # <<>> THEN second_section[1] - 1 ELSE 0

decode_key_event(csi, csi_type) ==
    LET parts == split(csi, 59)
        first == get_sub_sections(parts[1], 0)
        second == IF Len(parts) > 1 THEN get_sub_sections(parts[2], 1) ELSE Ok(<<>>)
        third == IF Len(parts) > 2 THEN get_sub_sections(parts[3], 0) ELSE Ok(<<>>)
    IN  IF first.raised # "None" THEN first
        ELSE IF second.raised # "None" THEN second
        ELSE IF third.raised # "None" THEN third
        ELSE
        LET first_section == first.value
            second_section == second.value
            third_section == third.value
            mods == decoded_mods(second_section)
            action == IF Len(second_section) > 1 THEN second_section[2] ELSE 1
            letter == IsSubstring(csi_type, <<65, 66, 67, 68, 72, 70, 80, 81, 82, 83>>)
        IN  IF letter /\ csi_type \notin DOMAIN letter_trailer_to_csi_number_map
            THEN Raise("KeyError")
            ELSE
            LET keynum == IF letter THEN letter_trailer_to_csi_number_map[csi_type]
                          ELSE first_section[1]
                key == key_name(keynum, csi_type)
                shifted_key == key_name(IF Len(first_section) > 1
                                        THEN first_section[2] ELSE 0, csi_type)
                alternate_key == key_name(IF Len(first_section) > 2
                                          THEN first_section[3] ELSE 0, csi_type)
                text == text_of(third_section)
            IN  IF key.raised # "None" THEN key
                ELSE IF shifted_key.raised # "None" THEN shifted_key
                ELSE IF alternate_key.raised # "None" THEN alternate_key
                ELSE IF action \notin DOMAIN action_to_type THEN Raise("KeyError")
                ELSE IF text.raised # "None" THEN text
                ELSE Ok(KeyEvent(action_to_type[action], mods, key.value, text.value,
                                 shifted_key.value, alternate_key.value,
                                 BitAnd(mods, SHIFT) # 0, BitAnd(mods, ALT) # 0,
                                 BitAnd(mods, CTRL) # 0, BitAnd(mods, SUPER) # 0))

\* ---------------------------------------------------------------------
\* encode_key_event
\* ---------------------------------------------------------------------

csi_number_for_name(name) ==
    IF name = <<>> THEN Ok(0)
    ELSE IF name \notin DOMAIN get_name_to_functional_number_map THEN ord(name)
    ELSE LET fn == get_name_to_functional_number_map[name]
         IN  Ok(Get(get_functional_to_csi_number_map, fn, fn))

\* the trailer chosen before the tilde test (lines 322-326)
letter_or_u(key_event, key) ==
    IF key_event.key = <<69, 78, 84, 69, 82>> THEN <<117>>        \* 'ENTER' -> 'u'
    ELSE Get(get_csi_number_to_letter_trailer_map, key, <<117>>)

emits_key_always(key, mods, shifted_key, alternate_key, text) == TRUE

\* whether the first integer is written (line 332)
emits_key(key, mods, shifted_key, alternate_key, text) ==
    key # 1 \/ mods # 0 \/ shifted_key # 0 \/ alternate_key # 0 \/ text # <<>>

\* the ':shifted:alternate' part (lines 334-337)
sub_keys(shifted_key, alternate_key) ==
    IF shifted_key # 0 \/ alternate_key # 0
    THEN <<58>> \o (IF shifted_key # 0 THEN str(shifted_key) ELSE <<>>)
              \o (IF alternate_key # 0 THEN <<58>> \o str(alternate_key) ELSE <<>>)
    ELSE <<>>

\* action = 1, 2 or 3 (lines 338-342)
action_of(key_event) ==
    IF key_event.type = REPEAT THEN 2
    ELSE IF key_event.type = RELEASE THEN 3
    ELSE 1

\* the wire mod mask m, from the booleans (lines 344-352)
wire_mods(key_event) ==
    BitOr(BitOr(IF key_event.shift THEN 1 ELSE 0, IF key_event.alt THEN 2 ELSE 0),
          BitOr(IF key_event.ctrl THEN 4 ELSE 0, IF key_event.super THEN 8 ELSE 0))

\* the ';mods:action' part (lines 343-358)
mods_section(key_event) ==
    LET mods == key_event.mods
        text == key_event.text
        action == action_of(key_event)
        m == wire_mods(key_event)
    IN  IF mods # 0 \/ action > 1 \/ text # <<>>
        THEN IF action > 1 \/ m # 0
             THEN <<59>> \o str(m + 1)
                  \o (IF action > 1 THEN <<58>> \o str(action) ELSE <<>>)
             ELSE IF text # <<>> THEN <<59>> ELSE <<>>
        ELSE <<>>

\* map(str, map(ord, text))
text_numbers(text) == [i \in 1..Len(text) |-> str(text[i])]

\* the ';text' part (lines 359-360)
text_section(text) ==
    IF text # <<>> THEN <<59>> \o join(<<58>>, text_numbers(text)) ELSE <<>>

final_trailer_kept(key_event, trailer) == trailer

\* the final trailer: '~' for the tilde keys (lines 361-363)
final_trailer(key_event, trailer) ==
    LET names == get_name_to_functional_number_map
    IN  IF key_event.key \in DOMAIN names /\ names[key_event.key] \in tilde_trailers
        THEN <<126>>
        ELSE trailer

encode_key_event(key_event) ==
    LET k == csi_number_for_name(key_event.key)
        sk == csi_number_for_name(key_event.shifted_key)
        ak == csi_number_for_name(key_event.alternate_key)
    IN  IF k.raised # "None" THEN k
        ELSE IF sk.raised # "None" THEN sk
        ELSE IF ak.raised # "None" THEN ak
        ELSE
        LET trailer == letter_or_u(key_event, k.value)
            key == IF trailer # <<117>> THEN 1 ELSE k.value
            shifted_key == sk.value
            alternate_key == ak.value
            ans == <<27, 91>>                                     \* '\033['
                   \o (IF emits_key(key, key_event.mods, shifted_key,
                                    alternate_key, key_event.text)
                       THEN str(key) ELSE <<>>)
                   \o sub_keys(shifted_key, alternate_key)
                   \o mods_section(key_event)
                   \o text_section(key_event.text)
        IN  Ok(ans \o final_trailer(key_event, trailer))

\* ---------------------------------------------------------------------
\* State
\* ---------------------------------------------------------------------

VARIABLES
    cache,                          \* parse_shortcut's lru_cache: entries, least recently used first
    functional_key_name_aliases,    \* key_names.functional_key_name_aliases
    character_key_name_aliases,     \* key_names.character_key_name_aliases
    input,                          \* what the caller was given: a payload and trailer, a KeyEvent, or an escape sequence
    event,                          \* the KeyEvent the caller holds: <<>> or <<e>>
    pc,                             \* how far the caller is: start, decoded, encoded, redecoded, matched, done
    call                            \* the last completed call: [op, args, ret]

vars == <<cache, functional_key_name_aliases, character_key_name_aliases,
          input, event, pc, call>>

\* ---------------------------------------------------------------------
\* parse_shortcut and KeyEvent.matches
\* ---------------------------------------------------------------------

config_mod_map ==
    <<83, 72, 73, 70, 84>> :> SHIFT                  \* 'SHIFT'
 @@ <<65, 76, 84>> :> ALT                            \* 'ALT'
 @@ <<79, 80, 84, 73, 79, 78>> :> ALT                \* 'OPTION'
 @@ <<8997>> :> ALT                                  \* U+2325 OPTION KEY
 @@ <<8984>> :> SUPER                                \* U+2318 PLACE OF INTEREST SIGN
 @@ <<67, 77, 68>> :> SUPER                          \* 'CMD'
 @@ <<83, 85, 80, 69, 82>> :> SUPER                  \* 'SUPER'
 @@ <<67, 84, 82, 76>> :> CTRL                       \* 'CTRL'
 @@ <<67, 79, 78, 84, 82, 79, 76>> :> CTRL           \* 'CONTROL'

\* s.upper(), for the ASCII letters and the caseless characters of the inputs
upper(s) == [i \in 1..Len(s) |-> IF s[i] \in 97..122 THEN s[i] - 32 ELSE s[i]]

endswith(s, suffix) ==
    Len(s) >= Len(suffix) /\ SubSeq(s, Len(s) - Len(suffix) + 1, Len(s)) = suffix

ParsedShortcut(mods, name) == [mods |-> mods, key_name |-> name]

\* mod_val |= x for x in mods
RECURSIVE or_all(_)
or_all(mods) == IF mods = <<>> THEN 0 ELSE BitOr(mods[1], or_all(Tail(mods)))

\* config_mod_map.get(x.upper(), SUPER << 8)
mod_bit(x) == Get(config_mod_map, upper(x), SUPER * 256)

parse_shortcut_wrapped_without_plus(spec0) ==
    LET parts == split(spec0, 43)
        last == parts[Len(parts)]
        aliased == Get(functional_key_name_aliases, upper(last), last)
        is_functional_key == upper(aliased) \in DOMAIN get_name_to_functional_number_map
        name == IF is_functional_key THEN upper(aliased)
                ELSE Get(character_key_name_aliases, upper(aliased), aliased)
        mods == [i \in 1..(Len(parts) - 1) |-> mod_bit(parts[i])]
    IN  ParsedShortcut(or_all(mods), name)

\* the body of parse_shortcut, what a cache miss computes
parse_shortcut_wrapped(spec0) ==
    LET spec == IF endswith(spec0, <<43>>)
                THEN SubSeq(spec0, 1, Len(spec0) - 1) \o <<112, 108, 117, 115>>   \* 'plus'
                ELSE spec0
        parts == split(spec, 43)
        last == parts[Len(parts)]
        aliased == Get(functional_key_name_aliases, upper(last), last)
        is_functional_key == upper(aliased) \in DOMAIN get_name_to_functional_number_map
        name == IF is_functional_key THEN upper(aliased)
                ELSE Get(character_key_name_aliases, upper(aliased), aliased)
        mods == [i \in 1..(Len(parts) - 1) |-> mod_bit(parts[i])]
    IN  ParsedShortcut(or_all(mods), name)

maxsize == 128

lru_cache_unbounded(entries, key) ==
    IF \E i \in 1..Len(entries) : entries[i].key = key
    THEN LET i == CHOOSE j \in 1..Len(entries) : entries[j].key = key
         IN  [value |-> entries[i].result,
              cache |-> SubSeq(entries, 1, i - 1) \o SubSeq(entries, i + 1, Len(entries))
                        \o <<entries[i]>>]
    ELSE LET result == parse_shortcut_wrapped(key)
         IN  [value |-> result,
              cache |-> entries \o <<[key |-> key, result |-> result]>>]

\* @lru_cache(maxsize=128): a hit moves the entry to the most recent end, a
\* miss computes, stores and evicts the least recent entry beyond maxsize
lru_cache(entries, key) ==
    IF \E i \in 1..Len(entries) : entries[i].key = key
    THEN LET i == CHOOSE j \in 1..Len(entries) : entries[j].key = key
         IN  [value |-> entries[i].result,
              cache |-> SubSeq(entries, 1, i - 1) \o SubSeq(entries, i + 1, Len(entries))
                        \o <<entries[i]>>]
    ELSE LET result == parse_shortcut_wrapped(key)
             grown == entries \o <<[key |-> key, result |-> result]>>
         IN  [value |-> result,
              cache |-> IF Len(grown) > maxsize THEN Tail(grown) ELSE grown]

\* parse_shortcut(spec) as callers see it: [value, cache]
parse_shortcut(spec) == lru_cache(cache, spec)

compared_mods_keeping_shift(self, is_shifted) == self.mods

\* q: self.mods & ~SHIFT for the shifted variant, else self.mods (lines 214-217)
compared_mods(self, is_shifted) ==
    IF is_shifted THEN self.mods - BitAnd(self.mods, SHIFT) ELSE self.mods

\* KeyEvent.matches(spec, types) for a spec given as a string: [value, cache]
matches(self, spec, types) ==
    IF BitAnd(types, self.type) = 0 THEN [value |-> FALSE, cache |-> cache]
    ELSE LET is_shifted == self.shifted_key # <<>> /\ self.shift
             q == compared_mods(self, is_shifted)
             kq == IF is_shifted THEN self.shifted_key ELSE self.key
             parsed == parse_shortcut(spec)
         IN  [value |-> IF q # parsed.value.mods THEN FALSE
                        ELSE kq = parsed.value.key_name,
              cache |-> parsed.cache]

\* ---------------------------------------------------------------------
\* The window-system bridge
\* ---------------------------------------------------------------------

\* as_window_system_event.as_num
as_num(key) ==
    IF key = <<>> THEN Ok(0)
    ELSE IF key \in DOMAIN get_name_to_functional_number_map
    THEN Ok(get_name_to_functional_number_map[key])
    ELSE ord(key)

\* KeyEvent.as_window_system_event; the GLFW constants stand for themselves
as_window_system_event(self) ==
    LET action == IF self.type = REPEAT THEN "GLFW_REPEAT"
                  ELSE IF self.type = RELEASE THEN "GLFW_RELEASE"
                  ELSE "GLFW_PRESS"
        mods == IF self.mods # 0
                THEN (IF self.shift THEN {"GLFW_MOD_SHIFT"} ELSE {})
                     \cup (IF self.alt THEN {"GLFW_MOD_ALT"} ELSE {})
                     \cup (IF self.ctrl THEN {"GLFW_MOD_CONTROL"} ELSE {})
                     \cup (IF self.super THEN {"GLFW_MOD_SUPER"} ELSE {})
                ELSE {}
        key == as_num(self.key)
        shifted_key == as_num(self.shifted_key)
        alternate_key == as_num(self.alternate_key)
    IN  IF key.raised # "None" THEN key
        ELSE IF shifted_key.raised # "None" THEN shifted_key
        ELSE IF alternate_key.raised # "None" THEN alternate_key
        ELSE Ok([key |-> key.value, shifted_key |-> shifted_key.value,
                 alternate_key |-> alternate_key.value, mods |-> mods,
                 action |-> action, text |-> self.text])

\* decode_key_event_as_window_system_key: Optional is <<>> (None) or <<event>>
decode_key_event_as_window_system_key(text) ==
    IF text = <<>> THEN Raise("IndexError")                       \* text[-1]
    ELSE LET csi == SubSeq(text, 3, Len(text) - 1)                \* text[2:-1]
             trailer == <<text[Len(text)]>>
             k == decode_key_event(csi, trailer)
         IN  IF k.raised # "None" THEN Ok(<<>>)
             ELSE LET w == as_window_system_event(k.value)
                  IN  IF w.raised # "None" THEN w ELSE Ok(<<w.value>>)

\* ---------------------------------------------------------------------
\* Inputs
\* ---------------------------------------------------------------------

MaxExtra == 1       \* sub-values written beyond the ones the grammar names
MaxText == 1        \* characters of text in a constructed KeyEvent

Extras(n) == [i \in 1..n |-> <<49>>]

\* a section is its sub-values joined by ':', a payload its sections joined by ';'
Section(subvalues) == join(<<58>>, subvalues)

Payload(sections) == join(<<59>>, [i \in 1..Len(sections) |-> Section(sections[i])])

KeyTokens == {<<>>, str(1), str(2), str(13), str(97)}

FirstSections ==
    {<<k>> : k \in KeyTokens}
    \cup {<<k, s>> : k \in {str(2), str(97)}, s \in {str(13), str(35)}}
    \cup {<<k, s, str(98)>> : k \in {str(2), str(97)}, s \in {<<>>, str(35)}}
    \cup {<<str(97), str(35), str(98)>> \o Extras(n) : n \in 1..MaxExtra}
    \cup {<<<<120>>>>}

SecondSections ==
    {<<m>> : m \in {<<>>, str(0), str(2), str(17)}}
    \cup {<<m, a>> : m \in {<<>>, str(2)}, a \in {<<>>, str(3), str(4)}}
    \cup {<<str(2), str(3)>> \o Extras(n) : n \in 1..MaxExtra}
    \cup {<<<<120>>>>}

ThirdSections ==
    {<<str(65)>>, <<<<>>, str(65)>>, <<str(65), str(66)>>, <<<<120>>>>}

Payloads ==
    {Payload(<<f>>) : f \in FirstSections}
    \cup {Payload(<<f, s>>) : f \in FirstSections, s \in SecondSections}
    \cup {Payload(<<f, s, t>>) : f \in FirstSections, s \in SecondSections,
                                 t \in ThirdSections}

LetterTrailers == {<<c>> : c \in {65, 66, 67, 68, 72, 70, 80, 81, 82, 83}}

Trailers == LetterTrailers \cup {<<117>>, <<126>>, <<109>>}      \* 'u', '~', 'm'

Texts == UNION {[1..n -> {65}] : n \in 0..MaxText}

Mirrored(type, mods, key, text, shifted_key, alternate_key) ==
    KeyEvent(type, mods, key, text, shifted_key, alternate_key,
             BitAnd(mods, SHIFT) # 0, BitAnd(mods, ALT) # 0,
             BitAnd(mods, CTRL) # 0, BitAnd(mods, SUPER) # 0)

Name(n) == functional_key_number_to_name_map[n]

LegalKeys ==
    {<<>>, <<97>>, <<1>>, Name(57345), Name(57364), Name(57352)}
    \cup {Name(n) : n \in tilde_trailers}

LegalKeyEvents ==
    {Mirrored(type, mods, key, text, shifted_key, alternate_key) :
        type \in {PRESS, REPEAT, RELEASE}, mods \in 0..15, key \in LegalKeys,
        text \in Texts, shifted_key \in {<<>>, <<0>>, <<35>>, Name(57345)},
        alternate_key \in {<<>>, <<98>>}}

Prefixes(s) == {SubSeq(s, 1, n) : n \in 0..Len(s)}

EscapeSequences ==
    UNION {Prefixes(<<27, 91>> \o p \o t) :
             p \in {Payload(<<<<str(97)>>, <<str(2)>>>>),
                    Payload(<<<<str(97)>>, <<str(1), str(4)>>>>),
                    Payload(<<<<<<120>>>>>>)},
             t \in {<<117>>, <<66>>}}

NoAliases == <<>>

\* the alias tables of key_names: upper-case token -> canonical name
FunctionalAliasTables == {NoAliases, <<69, 83, 67>> :> Name(57344)}      \* 'ESC' -> 'ESCAPE'

CharacterAliasTables == {NoAliases, <<80, 76, 85, 83>> :> <<43>>}        \* 'PLUS' -> '+'

\* '#', 'shift+3', 'hyper+a'
ShortcutSpecs ==
    {<<35>>, <<115, 104, 105, 102, 116, 43, 51>>, <<104, 121, 112, 101, 114, 43, 97>>}

TypeMasks == {0, PRESS + REPEAT, RELEASE, PRESS + REPEAT + RELEASE}

MatchPayloads ==
    {Payload(<<f>>) : f \in {<<str(97)>>, <<str(51), str(35)>>}}
    \cup {Payload(<<f, s>>) :
             f \in {<<str(97)>>, <<str(51), str(35)>>},
             s \in {<<str(2)>>, <<str(6)>>, <<str(2), str(2)>>, <<str(2), str(3)>>,
                    <<str(2049)>>, <<str(2050)>>}}

\* the events of a shifted '3': key '3', shifted_key '#', shift true, with
\* any mods (a caller may build an event whose mods lack the SHIFT bit)
ShiftedThree ==
    {[Mirrored(type, mods, <<51>>, <<>>, <<35>>, <<>>) EXCEPT !.shift = TRUE] :
        type \in {PRESS, REPEAT, RELEASE}, mods \in 0..15}

NoCall == [op |-> "none", args |-> <<>>, ret |-> <<>>]

\* ---------------------------------------------------------------------
\* Operations
\* ---------------------------------------------------------------------

InitWith(payloads, trailers, key_events, texts, faliases, caliases) ==
    /\ cache = <<>>
    /\ functional_key_name_aliases \in faliases
    /\ character_key_name_aliases \in caliases
    /\ pc = "start"
    /\ call = NoCall
    /\ \/ /\ \E c \in payloads, t \in trailers :
               input = [kind |-> "csi", value |-> <<c, t>>]
          /\ event = <<>>
       \/ /\ \E e \in key_events : event = <<e>>
          /\ input = [kind |-> "key_event", value |-> <<>>]
       \/ /\ \E x \in texts : input = [kind |-> "text", value |-> <<x>>]
          /\ event = <<>>

Init ==
    InitWith(Payloads, Trailers, LegalKeyEvents, EscapeSequences,
             {NoAliases}, {NoAliases})

\* the caller decodes the payload and trailer it was given
DecodeKeyEvent ==
    /\ input.kind = "csi" /\ pc = "start"
    /\ LET r == decode_key_event(input.value[1], input.value[2])
       IN  /\ call' = [op |-> "decode_key_event", args |-> input.value, ret |-> r]
           /\ event' = IF r.raised = "None" THEN <<r.value>> ELSE <<>>
    /\ pc' = "decoded"
    /\ UNCHANGED <<cache, functional_key_name_aliases, character_key_name_aliases, input>>

\* the caller encodes the KeyEvent it holds
EncodeKeyEvent ==
    /\ event # <<>> /\ pc \in {"start", "decoded"}
    /\ call' = [op |-> "encode_key_event", args |-> event,
                ret |-> encode_key_event(event[1])]
    /\ pc' = "encoded"
    /\ UNCHANGED <<cache, functional_key_name_aliases, character_key_name_aliases,
                   input, event>>

\* the caller splits the encoder's output as text[2:-1], text[-1] and decodes it
DecodeEncoded ==
    /\ pc = "encoded" /\ call.ret.raised = "None"
    /\ LET text == call.ret.value
           csi == SubSeq(text, 3, Len(text) - 1)
           trailer == <<text[Len(text)]>>
       IN  call' = [op |-> "decode_key_event", args |-> <<csi, trailer>>,
                    ret |-> decode_key_event(csi, trailer)]
    /\ pc' = "redecoded"
    /\ UNCHANGED <<cache, functional_key_name_aliases, character_key_name_aliases,
                   input, event>>

\* the caller hands the escape sequence it was given to the wrapper
DecodeAsWindowSystemKey ==
    /\ input.kind = "text" /\ pc = "start"
    /\ call' = [op |-> "decode_key_event_as_window_system_key", args |-> input.value,
                ret |-> decode_key_event_as_window_system_key(input.value[1])]
    /\ pc' = "done"
    /\ UNCHANGED <<cache, functional_key_name_aliases, character_key_name_aliases,
                   input, event>>

\* the caller asks whether the KeyEvent it holds matches a shortcut
Matches(spec, types) ==
    /\ event # <<>> /\ pc \in {"start", "decoded", "matched"}
    /\ LET r == matches(event[1], spec, types)
       IN  /\ call' = [op |-> "matches", args |-> <<spec, types>>, ret |-> r.value]
           /\ cache' = r.cache
    /\ pc' = "matched"
    /\ UNCHANGED <<functional_key_name_aliases, character_key_name_aliases, input, event>>

\* the caller parses a shortcut
ParseShortcut(spec) ==
    /\ LET r == parse_shortcut(spec)
       IN  /\ call' = [op |-> "parse_shortcut", args |-> <<spec>>, ret |-> r.value]
           /\ cache' = r.cache
    /\ UNCHANGED <<functional_key_name_aliases, character_key_name_aliases,
                   input, event, pc>>

Next ==
    \/ DecodeKeyEvent
    \/ EncodeKeyEvent
    \/ DecodeEncoded
    \/ DecodeAsWindowSystemKey

Spec == Init /\ [][Next]_vars

\* the matcher: events decoded or constructed, matched against shortcuts
InitMatch ==
    InitWith(MatchPayloads, {<<117>>}, ShiftedThree, {},
             FunctionalAliasTables, CharacterAliasTables)

NextMatch ==
    \/ DecodeKeyEvent
    \/ \E spec \in ShortcutSpecs, types \in TypeMasks : Matches(spec, types)
    \/ \E spec \in ShortcutSpecs : ParseShortcut(spec)

SpecMatch == InitMatch /\ [][NextMatch]_vars

\* 'ctrl++', 'ctrl+plus', '+', 'ctrl+', 'hyper+shift++'
PlusSpecs ==
    {<<99, 116, 114, 108, 43, 43>>,
     <<99, 116, 114, 108, 43, 112, 108, 117, 115>>,
     <<43>>,
     <<99, 116, 114, 108, 43>>,
     <<104, 121, 112, 101, 114, 43, 115, 104, 105, 102, 116, 43, 43>>}

\* a caller that only parses shortcuts: no payload, event or escape sequence
InitParsing ==
    /\ cache = <<>>
    /\ functional_key_name_aliases \in FunctionalAliasTables
    /\ character_key_name_aliases \in CharacterAliasTables
    /\ pc = "start"
    /\ call = NoCall
    /\ input = [kind |-> "none", value |-> <<>>]
    /\ event = <<>>

\* the parser on shortcuts that end in '+', in any order and any number of times
NextParse == \E spec \in PlusSpecs : ParseShortcut(spec)

SpecParse == InitParsing /\ [][NextParse]_vars

NumSpecs == 130      \* distinct shortcuts the caller parses, more than maxsize
MaxRevisits == 2     \* times the caller parses again a shortcut it has parsed

\* the n-th shortcut of the caller: 'ctrl+' and the decimal digits of n
Numbered(n) == <<99, 116, 114, 108, 43>> \o str(n)

\* the caller parses a shortcut again only early or once the cache is full
RevisitPoints == {1, 2} \cup (maxsize..NumSpecs)

\* a caller with a list of shortcuts: input.value is <<shortcuts parsed, revisits made>>
InitCaching ==
    /\ cache = <<>>
    /\ functional_key_name_aliases \in FunctionalAliasTables
    /\ character_key_name_aliases \in CharacterAliasTables
    /\ pc = "start"
    /\ call = NoCall
    /\ input = [kind |-> "specs", value |-> <<0, 0>>]
    /\ event = <<>>

\* the caller parses the next shortcut of its list
ParseNext ==
    /\ input.kind = "specs" /\ input.value[1] < NumSpecs
    /\ LET r == parse_shortcut(Numbered(input.value[1] + 1))
       IN  /\ call' = [op |-> "parse_shortcut",
                       args |-> <<Numbered(input.value[1] + 1)>>, ret |-> r.value]
           /\ cache' = r.cache
    /\ input' = [input EXCEPT !.value = <<input.value[1] + 1, input.value[2]>>]
    /\ UNCHANGED <<functional_key_name_aliases, character_key_name_aliases, event, pc>>

\* the caller parses again the i-th shortcut of its list
ParseAgain(i) ==
    /\ input.kind = "specs" /\ input.value[2] < MaxRevisits
    /\ input.value[1] \in RevisitPoints /\ i \in 1..input.value[1]
    /\ LET r == parse_shortcut(Numbered(i))
       IN  /\ call' = [op |-> "parse_shortcut", args |-> <<Numbered(i)>>, ret |-> r.value]
           /\ cache' = r.cache
    /\ input' = [input EXCEPT !.value = <<input.value[1], input.value[2] + 1>>]
    /\ UNCHANGED <<functional_key_name_aliases, character_key_name_aliases, event, pc>>

\* revisited: the first shortcut, the least recent one of a full cache, the last one
NextCache ==
    \/ ParseNext
    \/ \E i \in {1, input.value[1] - maxsize + 1, input.value[1]} : ParseAgain(i)

SpecCache == InitCaching /\ [][NextCache]_vars

\* ---------------------------------------------------------------------
\* Properties
\* ---------------------------------------------------------------------

\* the caller has decoded what the encoder wrote for the event it holds
RoundTripDone == pc = "redecoded"

\* C1: every KeyEvent the decoder returns survives encoding and decoding
\* again: the second decode returns an event equal to it in every field.
C1_RoundTripOnDecoderOutputs ==
    (RoundTripDone /\ input.kind = "csi")
        => (call.ret.raised = "None" /\ call.ret.value = event[1])

\* C2: every legal KeyEvent survives encoding and decoding: the decoder
\* returns an event equal to the one that was encoded.
C2_RoundTripOnEncoderOutputs ==
    (RoundTripDone /\ input.kind = "key_event")
        => (call.ret.raised = "None" /\ call.ret.value = event[1])

\* the encoder has returned a sequence for the event the caller holds
Encoded == call.op = "encode_key_event" /\ call.ret.raised = "None"

\* the sub-values of the payload's first section, as written
FirstSubValues(csi) == split(split(csi, 59)[1], 58)

\* text[2:-1] and text[-1] of an escape sequence
PayloadOf(text) == SubSeq(text, 3, Len(text) - 1)

TrailerOf(text) == <<text[Len(text)]>>

\* KeyEvent(key='F1')
BareF1 == KeyEvent(PRESS, 0, <<70, 49>>, <<>>, <<>>, <<>>, FALSE, FALSE, FALSE, FALSE)

\* C3 as stated: whenever the encoder chooses a letter trailer the first
\* integer it writes is 1, and the bare F1 press encodes as ESC [ 1 P.
C3_LetterTrailerWritesOne ==
    Encoded =>
        /\ TrailerOf(call.ret.value) \in LetterTrailers
             => FirstSubValues(PayloadOf(call.ret.value))[1] = <<49>>
        /\ event[1] = BareF1 => call.ret.value = <<27, 91, 49, 80>>

\* C3 as amended: with a letter trailer the first integer is written, as 1,
\* exactly when the event has non-zero mods, a shifted or alternate key
\* whose number is not 0, or text, and is left out otherwise; the bare F1
\* press encodes as ESC [ P.
C3_LetterTrailerShape ==
    Encoded =>
        /\ TrailerOf(call.ret.value) \in LetterTrailers
             => FirstSubValues(PayloadOf(call.ret.value))[1] =
                   (IF \/ event[1].mods # 0
                       \/ event[1].shifted_key \notin {<<>>, <<0>>}
                       \/ event[1].alternate_key \notin {<<>>, <<0>>}
                       \/ event[1].text # <<>>
                    THEN <<49>> ELSE <<>>)
        /\ event[1] = BareF1 => call.ret.value = <<27, 91, 80>>

\* the bare F1 press has been encoded
C3_Witness == Encoded /\ event[1] = BareF1

\* the caller's own decode of the payload it was given has returned
Decoded == pc = "decoded" /\ call.op = "decode_key_event"

Accepted == Decoded /\ call.ret.raised = "None"

\* the characters a text section names: one per integer written in it
RECURSIVE NamedCharacters(_)
NamedCharacters(subvalues) ==
    IF subvalues = <<>> THEN <<>>
    ELSE (IF subvalues[1] = <<>> THEN <<>> ELSE <<DigitsValue(subvalues[1], 0)>>)
         \o NamedCharacters(Tail(subvalues))

\* C4: decode_key_event("97;;:65", "u") is a PRESS of 'a' with mods 0, no
\* alternate key and text "A"; the text of a decoded event is the characters
\* the third section's integers name and nothing else.
C4_TextSection ==
    Accepted =>
        /\ call.args = <<<<57, 55, 59, 59, 58, 54, 53>>, <<117>>>>
             => /\ call.ret.value.type = PRESS
                /\ call.ret.value.key = <<97>>
                /\ call.ret.value.mods = 0
                /\ call.ret.value.alternate_key = <<>>
                /\ call.ret.value.text = <<65>>
        /\ LET parts == split(call.args[1], 59)
           IN  call.ret.value.text =
                 (IF Len(parts) > 2 THEN NamedCharacters(split(parts[3], 58)) ELSE <<>>)

\* a sub-value that is written and is not a decimal number
NonNumeric(y) == y # <<>> /\ \E i \in 1..Len(y) : y[i] \notin 48..57

\* a payload the grammar rules out
Malformed(csi) ==
    LET parts == split(csi, 59)
        sections == [i \in 1..Len(parts) |-> split(parts[i], 58)]
    IN  \/ \E i \in 1..Len(sections) : \E j \in 1..Len(sections[i]) :
              NonNumeric(sections[i][j])
        \/ Len(sections[1]) > 3
        \/ Len(sections) > 1 /\ Len(sections[2]) > 2
        \/ /\ Len(sections) > 1 /\ Len(sections[2]) > 1
           /\ sections[2][2] # <<>> /\ ~NonNumeric(sections[2][2])
           /\ DigitsValue(sections[2][2], 0) \notin {1, 2, 3}

\* C5: a payload with a non-numeric sub-value, with more sub-values than the
\* grammar allows, or with an action outside {1,2,3} is rejected with an error.
C5_MalformedRejected ==
    (Decoded /\ Malformed(call.args[1])) => call.ret.raised # "None"

\* C6: decode_key_event_as_window_system_key never raises: it returns a
\* window-system key event or the absent result for every input string.
C6_WrapperNeverRaises ==
    call.op = "decode_key_event_as_window_system_key" => call.ret.raised = "None"

\* a shortcut with a modifier token outside config_mod_map
HasUnknownModifier(spec) ==
    LET parts == split(IF spec # <<>> /\ spec[Len(spec)] = 43
                       THEN SubSeq(spec, 1, Len(spec) - 1) \o <<112, 108, 117, 115>>
                       ELSE spec, 43)
    IN  \E i \in 1..(Len(parts) - 1) : upper(parts[i]) \notin DOMAIN config_mod_map

\* C7: an event the decoder returned never matches a shortcut that has an
\* unknown modifier, whatever the types mask.
C7_UnknownModifierNeverMatches ==
    (call.op = "matches" /\ input.kind = "csi" /\ HasUnknownModifier(call.args[1]))
        => call.ret = FALSE

\* a shifted '3': shift held, shifted_key '#', key '3'
IsShiftedThree(e) == e.shift /\ e.shifted_key = <<35>> /\ e.key = <<51>>

\* e.matches(spec), with the default types mask, has returned
MatchedDefault(spec) ==
    /\ call.op = "matches"
    /\ call.args = <<spec, PRESS + REPEAT>>
    /\ IsShiftedThree(event[1])

\* C8 as stated: every shifted '3' matches "#" and does not match "shift+3".
C8_ShiftAliasAlways ==
    /\ MatchedDefault(<<35>>) => call.ret = TRUE
    /\ MatchedDefault(<<115, 104, 105, 102, 116, 43, 51>>) => call.ret = FALSE

\* C8 as amended: no shifted '3' matches "shift+3"; a shifted '3' matches "#"
\* exactly when it is a PRESS or a REPEAT and holds no modifier but shift.
C8_ShiftAlias ==
    /\ MatchedDefault(<<35>>)
         => (call.ret = (/\ event[1].type \in {PRESS, REPEAT}
                         /\ event[1].mods \in {0, SHIFT}))
    /\ MatchedDefault(<<115, 104, 105, 102, 116, 43, 51>>) => call.ret = FALSE

\* a pressed shift+3 has been matched against "#"
C8_Witness ==
    /\ MatchedDefault(<<35>>)
    /\ event[1].type = PRESS /\ event[1].mods = SHIFT
    /\ call.ret = TRUE

\* C9: every KeyEvent the decoder returns has mods in 0..255, its four
\* booleans equal to bits 1, 2, 4 and 8 of mods, and a type among PRESS,
\* REPEAT and RELEASE.
C9_DecoderOutputInvariant ==
    Accepted =>
        LET e == call.ret.value
        IN  /\ e.mods \in 0..255
            /\ e.shift = ((e.mods % 2) = 1)
            /\ e.alt = (((e.mods \div 2) % 2) = 1)
            /\ e.ctrl = (((e.mods \div 4) % 2) = 1)
            /\ e.super = (((e.mods \div 8) % 2) = 1)
            /\ e.type \in {PRESS, REPEAT, RELEASE}

\* the key each letter trailer stands for
LetterKey ==
    <<65>> :> <<85, 80>>                  \* A = UP
 @@ <<66>> :> <<68, 79, 87, 78>>          \* B = DOWN
 @@ <<67>> :> <<82, 73, 71, 72, 84>>      \* C = RIGHT
 @@ <<68>> :> <<76, 69, 70, 84>>          \* D = LEFT
 @@ <<70>> :> <<69, 78, 68>>              \* F = END
 @@ <<72>> :> <<72, 79, 77, 69>>          \* H = HOME
 @@ <<80>> :> <<70, 49>>                  \* P = F1
 @@ <<81>> :> <<70, 50>>                  \* Q = F2
 @@ <<82>> :> <<70, 51>>                  \* R = F3
 @@ <<83>> :> <<70, 52>>                  \* S = F4

\* what the number 13 decodes to under a trailer
Thirteen(trailer) == IF trailer = <<117>> THEN <<69, 78, 84, 69, 82>> ELSE <<70, 51>>

\* C10: with a letter trailer the decoded key is the trailer's key whatever
\* first integer the payload carries; the key number 13 decodes to ENTER
\* under the trailer u and to F3 under every other trailer.
C10_DecoderKeyIdentity ==
    (call.op = "decode_key_event" /\ call.ret.raised = "None") =>
        LET subvalues == FirstSubValues(call.args[1])
            trailer == call.args[2]
            e == call.ret.value
        IN  /\ trailer \in LetterTrailers => e.key = LetterKey[trailer]
            /\ (trailer \notin LetterTrailers /\ subvalues[1] = <<49, 51>>)
                 => e.key = Thirteen(trailer)
            /\ (Len(subvalues) > 1 /\ subvalues[2] = <<49, 51>>)
                 => e.shifted_key = Thirteen(trailer)

\* a payload whose first integer is 13 has been decoded under the trailer A
C10_Witness ==
    /\ Accepted
    /\ call.args[2] = <<65>>
    /\ FirstSubValues(call.args[1])[1] = <<49, 51>>
    /\ call.ret.value.key = <<85, 80>>

\* the functional numbers written with the trailer '~'
TildeNumbers ==
    {57348, 57349, 57354, 57355} \cup (57368..57375)

\* the event the caller holds has a key of the tilde set
HoldsTildeKey ==
    /\ event # <<>>
    /\ \E n \in TildeNumbers : event[1].key = functional_key_number_to_name_map[n]

\* C11: every KeyEvent whose key is in the tilde-trailer set encodes to a
\* sequence that ends in '~', whatever its type, mods, booleans, text,
\* shifted key and alternate key are; never in a letter trailer or 'u'.
C11_TildePrecedence ==
    (call.op = "encode_key_event" /\ HoldsTildeKey)
        => (call.ret.raised = "None" /\ TrailerOf(call.ret.value) = <<126>>)

\* a released F12 with modifiers, text, a shifted and an alternate key has
\* been encoded
C11_Witness ==
    /\ Encoded /\ HoldsTildeKey
    /\ event[1].key = <<70, 49, 50>>
    /\ event[1].type = RELEASE /\ event[1].mods = 15
    /\ event[1].text # <<>>
    /\ event[1].shifted_key # <<>> /\ event[1].alternate_key # <<>>

\* parse_shortcut has returned
Parsed == call.op = "parse_shortcut"

\* the bit the modifier table gives a token; SUPER << 8 for a token outside it
TableBit(token) ==
    LET t == upper(token)
    IN  IF t = <<83, 72, 73, 70, 84>> THEN 1                                   \* SHIFT
        ELSE IF t \in {<<65, 76, 84>>, <<79, 80, 84, 73, 79, 78>>, <<8997>>} THEN 2
        ELSE IF t \in {<<67, 84, 82, 76>>, <<67, 79, 78, 84, 82, 79, 76>>} THEN 4
        ELSE IF t \in {<<83, 85, 80, 69, 82>>, <<67, 77, 68>>, <<8984>>} THEN 8
        ELSE 2048

\* the tokens before the final '+' of a spec that ends in '+'
TokensBeforePlus(spec) ==
    LET body == SubSeq(spec, 1, Len(spec) - 1)
    IN  IF body = <<>> THEN <<>>
        ELSE IF body[Len(body)] = 43 THEN split(SubSeq(body, 1, Len(body) - 1), 43)
        ELSE split(body, 43)

\* the set of bits of a non-negative int, as the powers of two in it
BitsOf(n) == {b \in {1, 2, 4, 8, 2048} : (n \div b) % 2 = 1}

\* the key the token 'plus' resolves to
PlusKey ==
    IF <<80, 76, 85, 83>> \in DOMAIN character_key_name_aliases
    THEN character_key_name_aliases[<<80, 76, 85, 83>>]
    ELSE <<112, 108, 117, 115>>

\* the result the claim gives a spec that ends in '+'
IsPlusWithModifiers(spec, parsed) ==
    LET tokens == TokensBeforePlus(spec)
    IN  /\ parsed.key_name = PlusKey
        /\ parsed.mods \in 0..4095
        /\ BitsOf(parsed.mods) = {TableBit(tokens[i]) : i \in 1..Len(tokens)}

\* 'ctrl++' and 'ctrl+plus' have the same cached result, with mods CTRL
CtrlPlusAgree ==
    \A i, j \in 1..Len(cache) :
        (cache[i].key = <<99, 116, 114, 108, 43, 43>>
         /\ cache[j].key = <<99, 116, 114, 108, 43, 112, 108, 117, 115>>)
            => (cache[i].result = cache[j].result /\ cache[i].result.mods = 4)

\* C12 as stated: every spec that ends in '+' parses to the key of the token
\* 'plus' with the mods of the modifier tokens before it; 'ctrl++' parses
\* exactly as 'ctrl+plus', with mods CTRL.
C12_TrailingPlusAlways ==
    /\ (Parsed /\ call.args[1][Len(call.args[1])] = 43)
         => IsPlusWithModifiers(call.args[1], call.ret)
    /\ CtrlPlusAgree

\* the final '+' of the spec is a token of its own: the spec is '+' or ends in '++'
PlusIsToken(spec) ==
    \/ spec = <<43>>
    \/ Len(spec) > 1 /\ spec[Len(spec)] = 43 /\ spec[Len(spec) - 1] = 43

\* C12 as amended: every spec that is '+' or ends in '++' parses to the key
\* of the token 'plus' with the mods of the modifier tokens before it (an
\* unknown token giving SUPER << 8); 'ctrl++' parses exactly as 'ctrl+plus',
\* with mods CTRL.
C12_TrailingPlus ==
    /\ (Parsed /\ PlusIsToken(call.args[1]))
         => IsPlusWithModifiers(call.args[1], call.ret)
    /\ CtrlPlusAgree

\* 'ctrl++' has been parsed after 'ctrl+plus'
C12_Witness ==
    /\ Parsed /\ call.args[1] = <<99, 116, 114, 108, 43, 43>>
    /\ \E j \in 1..Len(cache) : cache[j].key = <<99, 116, 114, 108, 43, 112, 108, 117, 115>>
    /\ call.ret.mods = 4

\* C13: over any sequence of parse_shortcut calls the cache never holds more
\* than 128 entries, and every call, be it a hit, a miss or a recomputation
\* after eviction, returns what an uncached parse of the same string returns.
C13_CacheTransparency ==
    /\ Len(cache) <= 128
    /\ Parsed => call.ret = parse_shortcut_wrapped(call.args[1])

\* after 129 shortcuts the first one, evicted by the 129th, has been parsed
\* again: it was recomputed and the then least recent one, the 2nd, evicted
C13_Witness ==
    /\ Parsed /\ input.kind = "specs"
    /\ input.value = <<129, 1>>
    /\ call.args[1] = Numbered(1)
    /\ Len(cache) = 128
    /\ cache[1].key = Numbered(3)
    /\ cache[128].key = Numbered(1)

====
